---- MODULE Spec2Model ----
(***************************************************************************)
(* Model of the Enhanced Data Toolkit (src/main.py).                       *)
(*                                                                         *)
(* Spec:       the Data Processor (class EnhancedDataProcessor): the       *)
(*             loaded table self.df, its path self.file_path, the          *)
(*             reference tables self.map_full_df / self.map_df, and the    *)
(*             handlers bound to the processor's buttons.                  *)
(* SpecConfig: the settings store (class ConfigManager): the dict objects  *)
(*             behind self.config and DEFAULT_CONFIG, set and              *)
(*             reset_to_defaults.                                          *)
(* SpecUi:     the Excel converter (class EnhancedExcelConverter) and the  *)
(*             worker threads of the converter and of the CSV merger       *)
(*             (class EnhancedCSVMerger), with the widgets they reach.     *)
(* SpecMerger: the data of the CSV merger: self.df1 / self.df2, the key    *)
(*             boxes, the columns to pull, the two buttons, and            *)
(*             perform_merge as its worker runs it.                        *)
(***************************************************************************)
EXTENDS Integers, Sequences, FiniteSets, TLC

VARIABLES
    df,           \* self.df: the loaded Record Table, or None
    file_path,    \* self.file_path: path of the loaded file, or None
    map_full_df,  \* self.map_full_df: the reference file as read, or None
    map_df,       \* self.map_df: the PROVINCENAME/REGION map, or None
    config,       \* the "data_processor" settings the handlers read
    out_files,    \* paths written by save_df
    pc,           \* where the Tk main thread is: idle or inside a modal dialog
    active_runs,  \* number of run_full_process invocations not yet returned
    full_btn,     \* state of the "Full Process" button
    last_op,      \* the handler that made the last step
    obs,          \* what the last handler did that the user can observe
    save_call,    \* the last save_df call of the last handler
    heap,         \* ConfigManager: the dict objects, by name
    cfg_op,       \* ConfigManager: the last call and how it ended
    xl,           \* converter: self.file_path and the two checkboxes
    workers,      \* the worker threads alive, in the order they started
    ui_queue,     \* callbacks queued with parent.after, oldest first
    touched,      \* widget accesses of the last step, with their thread
    conv_run,     \* converter: the last run of convert.worker that ended
    df1,          \* merger: self.df1, the primary table, or None
    df2,          \* merger: self.df2, the source table, or None
    s_var,        \* merger: the text of the two key search boxes
    match_f1,     \* merger: the primary key box, its list and its value
    match_f2,     \* merger: the source key box, its list and its value
    pull_vars,    \* merger: self.pull_vars, column -> checked
    prev_btn,     \* merger: state of "Preview Merge"
    merge_btn,    \* merger: state of "Merge & Save"
    m_threads,    \* merger: the worker threads alive
    m_queue,      \* merger: callbacks queued with parent.after, oldest first
    merge_call    \* merger: how perform_merge ended, when the last step ended it

procVars == <<df, file_path, map_full_df, map_df, config, out_files, pc,
              active_runs, full_btn, last_op, obs, save_call>>

cfgVars == <<heap, cfg_op>>

uiVars == <<xl, workers, ui_queue, touched, conv_run>>

mergerVars == <<df1, df2, s_var, match_f1, match_f2, pull_vars, prev_btn,
                merge_btn, m_threads, m_queue, merge_call>>

vars == <<procVars, cfgVars, uiVars, mergerVars>>

----------------------------------------------------------------------------
(* Bounds *)

\* cap on nested run_full_process invocations explored
MaxActiveRuns == 2

\* cap on worker threads alive at a time
MaxWorkers == 2

\* cap on callbacks waiting in the Tk event queue
MaxQueue == 2

\* cap on the merger's work in flight: its threads alive and its callbacks
\* waiting in the Tk event queue
MaxInFlight == 1

----------------------------------------------------------------------------
(* Cell values: a pandas scalar is null (NaN/None), text or an integer.    *)

Null == [t |-> "null", s |-> "", n |-> 0]
Str(x) == [t |-> "str", s |-> x, n |-> 0]
Int_(k) == [t |-> "int", s |-> "", n |-> k]
\* what reading a column the table does not have gives (a KeyError)
Absent == [t |-> "absent", s |-> "", n |-> 0]

(* A table: its columns and its rows, each row a function on the columns.  *)
NoneDf == [some |-> FALSE, columns |-> {}, rows |-> <<>>]
Table(cols, rws) == [some |-> TRUE, columns |-> cols, rows |-> rws]

GetCell(row, col) == IF col \in DOMAIN row THEN row[col] ELSE Absent

(* Paths: directory, base name and extension, as os.path.splitext and      *)
(* os.path.basename take them apart.                                       *)
NonePath == [dir |-> "", base |-> "", ext |-> ""]
Path(d, b, e) == [dir |-> d, base |-> b, ext |-> e]

\* str.lower() of an extension
Lower(e) ==
    IF e = ".CSV" THEN ".csv"
    ELSE IF e = ".XLSX" THEN ".xlsx"
    ELSE e

(* File contents: how a table is serialized, and the table.                *)

\* the serialization save_df writes for an extension
WriteFormat(e) ==
    IF e = ".csv" THEN "csv"
    ELSE IF e = ".xlsx" THEN "xlsx"
    ELSE "json array"

\* the serialization load_file reads for an extension
ReadFormat(e) ==
    IF e = ".csv" THEN "csv"
    ELSE IF e = ".xlsx" THEN "xlsx"
    ELSE IF e = ".jsonl" THEN "json lines"
    ELSE "json array"

\* a pandas reader parses the serialization it is made for; read_json with
\* lines=True takes every line as one JSON document and raises on the
\* indented array to_json(orient='records', indent=2) writes
Parses(reader, fmt) == reader = fmt

StoredFile(fmt, t) == [fmt |-> fmt, table |-> t]

----------------------------------------------------------------------------
(* The files the "Select Data File" dialog can return.                     *)

ScenarioRow ==
    [ACCTNO |-> Str("123"), JONO |-> Str("45"),
     DATEJOCREATED |-> Str("2024-01-01"), PACKAGENAME |-> Str("SKY FIBER"),
     PROVINCENAME |-> Str("METRO MANILA")]

ScenarioTable ==
    Table({"ACCTNO", "JONO", "DATEJOCREATED", "PACKAGENAME", "PROVINCENAME"},
          <<ScenarioRow>>)

\* an export of an earlier run: it carries day counts and bucket labels
ExportRow1 ==
    [DATEJOCREATED |-> Null, JOTODAY |-> Int_(7), AGEING |-> Str("> 60 D"),
     DIVISIONCODE |-> Str("BSG"), SUBSCRIBERSTATUSCODE |-> Str("ACT"),
     PROVINCENAME |-> Str("CEBU"), MUNICIPALITYNAME |-> Str("CEBU CITY")]

ExportRow2 ==
    [DATEJOCREATED |-> Str("2024-01-01"), JOTODAY |-> Int_(90),
     AGEING |-> Str("0-1 D"),
     DIVISIONCODE |-> Str("RES"), SUBSCRIBERSTATUSCODE |-> Str("INACT"),
     PROVINCENAME |-> Str("CEBU"), MUNICIPALITYNAME |-> Str("CEBU CITY")]

ExportRow3 ==
    [DATEJOCREATED |-> Str("2024-01-20"), JOTODAY |-> Null, AGEING |-> Null,
     DIVISIONCODE |-> Str("SME"), SUBSCRIBERSTATUSCODE |-> Null,
     PROVINCENAME |-> Str("ILOILO"), MUNICIPALITYNAME |-> Null]

ExportTable ==
    Table({"DATEJOCREATED", "JOTODAY", "AGEING", "DIVISIONCODE",
           "SUBSCRIBERSTATUSCODE", "PROVINCENAME", "MUNICIPALITYNAME"},
          <<ExportRow1, ExportRow2, ExportRow3>>)

ScenarioPath == Path("/in", "scenario", ".csv")
ExportPath == Path("/in", "export", ".XLSX")
LinesPath == Path("/in", "lines", ".jsonl")

DataPaths == {ScenarioPath, ExportPath, LinesPath}

\* the table stored at a path
FileTable(p) ==
    IF p = ScenarioPath THEN ScenarioTable
    ELSE IF p = ExportPath THEN ExportTable
    ELSE Table({"DIVISIONCODE"}, <<[DIVISIONCODE |-> Str("BSG")]>>)

\* the file at a path the dialog offers: in the format of its extension
DiskFile(p) == StoredFile(ReadFormat(Lower(p.ext)), FileTable(p))

----------------------------------------------------------------------------
(* The reference file (MAP.csv): positional columns, text cells.           *)

NoneMap == [some |-> FALSE, columns |-> <<>>, rows |-> <<>>]
MapTable(cols, rws) == [some |-> TRUE, columns |-> cols, rows |-> rws]

\* DataFrame.shape[1]
Width(t) == Len(t.columns)

\* a three-column file; CEBU occurs twice with different regions
Map3 ==
    MapTable(<<"PROVINCE", "CODE", "REGION">>,
             << <<"CEBU", "C1", "VISAYAS">>,
                <<"CEBU", "C2", "CENTRAL">>,
                <<"METRO MANILA", "M1", "NCR">> >>)

\* a file too narrow for the region map
Map2 ==
    MapTable(<<"PROVINCE", "REGION">>, << <<"ILOILO", "WESTERN VISAYAS">> >>)

\* a nine-column file whose municipality tier and province tier disagree
\* on the MSP of CEBU
Map9 ==
    MapTable(<<"PROVINCE", "CODE", "REGION", "BARANGAY", "BRGY_MSP",
               "MUNICIPALITY", "MUNI_MSP", "PROVINCE_KEY", "PROV_MSP">>,
             << <<"CEBU", "C1", "VISAYAS", "LAHUG", "MSP-BRGY",
                  "CEBU CITY", "MSP-MUNI", "CEBU", "MSP-PROV">> >>)

MapFiles == {Map3, Map2, Map9}

\* what load_map_silent can find at the configured path
MapDisk ==
    {[exists |-> FALSE, readable |-> FALSE, table |-> NoneMap],
     [exists |-> TRUE, readable |-> FALSE, table |-> NoneMap]}
    \cup {[exists |-> TRUE, readable |-> TRUE, table |-> t] : t \in MapFiles}

\* drop_duplicates keeping the last row of each key
RECURSIVE DropDuplicatesKeepLast(_)
DropDuplicatesKeepLast(rws) ==
    IF rws = <<>> THEN <<>>
    ELSE LET back == DropDuplicatesKeepLast(SubSeq(rws, 2, Len(rws)))
             first == rws[1]
         IN IF \E i \in 1..Len(back) : back[i][1] = first[1]
            THEN back
            ELSE <<first>> \o back

\* DataFrame.drop_duplicates(subset=[first column]): the first row of each
\* key stays, in file order
RECURSIVE DropDuplicates(_)
DropDuplicates(rws) ==
    IF rws = <<>> THEN <<>>
    ELSE LET front == DropDuplicates(SubSeq(rws, 1, Len(rws) - 1))
             last == rws[Len(rws)]
         IN IF \E i \in 1..Len(front) : front[i][1] = last[1]
            THEN front
            ELSE Append(front, last)

\* iloc[:, [0, 2]] renamed to PROVINCENAME / REGION, duplicates dropped
RegionMap(t) ==
    MapTable(<<"PROVINCENAME", "REGION">>,
             DropDuplicates([i \in 1..Len(t.rows) |->
                                <<t.rows[i][1], t.rows[i][3]>>]))

\* load_map_silent as a function of the fields it may assign and of what is
\* on disk: the new fields and the message logged
LoadMapResult(mfull, mdf, disk) ==
    IF ~disk.exists
    THEN [map_full_df |-> mfull, map_df |-> mdf, log |-> "map not found"]
    ELSE IF ~disk.readable
    THEN [map_full_df |-> mfull, map_df |-> mdf, log |-> "map load error"]
    ELSE IF Width(disk.table) >= 3
    THEN [map_full_df |-> disk.table, map_df |-> RegionMap(disk.table),
          log |-> "map loaded"]
    ELSE [map_full_df |-> disk.table, map_df |-> mdf,
          log |-> "map unexpected structure"]

----------------------------------------------------------------------------
(* Text: Series.astype(str) and Series.str.contains work on characters.    *)

\* the characters of the texts that occur as status codes or as act_code
Chars(x) ==
    CASE x = "ACT" -> <<"A", "C", "T">>
      [] x = "INACT" -> <<"I", "N", "A", "C", "T">>
      [] x = "nan" -> <<"n", "a", "n">>
      [] x = "an" -> <<"a", "n">>
      [] x = "A.T" -> <<"A", ".", "T">>

Digit(d) ==
    CASE d = 0 -> "0" [] d = 1 -> "1" [] d = 2 -> "2" [] d = 3 -> "3"
      [] d = 4 -> "4" [] d = 5 -> "5" [] d = 6 -> "6" [] d = 7 -> "7"
      [] d = 8 -> "8" [] d = 9 -> "9"

\* str(k) of a non-negative integer
RECURSIVE IntChars(_)
IntChars(k) ==
    IF k < 10 THEN <<Digit(k)>>
    ELSE Append(IntChars(k \div 10), Digit(k % 10))

\* astype(str) of one cell: NaN becomes the text "nan"
AsTypeStr(c) ==
    IF c.t = "null" THEN Chars("nan")
    ELSE IF c.t = "str" THEN Chars(c.s)
    ELSE IntChars(c.n)

\* str.contains(needle) on one text: needle is a regular expression
\* (regex=True is the default), here of plain characters and ".", which
\* stands for any one character
Contains(hay, needle) ==
    \E i \in 0..(Len(hay) - Len(needle)) :
        \A k \in 1..Len(needle) :
            needle[k] = "." \/ hay[i + k] = needle[k]

\* boolean-mask row selection df[mask]: rows kept in their order
RECURSIVE SelectRows(_, _)
SelectRows(rws, keep) ==
    IF rws = <<>> THEN <<>>
    ELSE LET front == SelectRows(SubSeq(rws, 1, Len(rws) - 1), keep)
             last == rws[Len(rws)]
         IN IF last \in keep THEN Append(front, last) ELSE front

----------------------------------------------------------------------------
(* Settings read by the handlers (ConfigManager.DEFAULT_CONFIG).           *)

DefaultConfig ==
    [auto_save |-> TRUE, output_folder |-> "data",
     bsg_code |-> "BSG", act_code |-> "ACT"]

\* what the settings dialog can store
Configs ==
    [auto_save : BOOLEAN, output_folder : {"data"},
     bsg_code : {"BSG", "SME"}, act_code : {"ACT", "an", "A.T"}]

----------------------------------------------------------------------------
(* save_df                                                                 *)

NoSaveCall ==
    [called |-> FALSE, df_in |-> NoneDf, fp_in |-> NonePath, mk |-> "ok",
     wr |-> "ok", ret |-> NonePath, raised |-> FALSE, log |-> "none",
     folder |-> "", written |-> StoredFile("none", NoneDf)]

\* the output written next to the input file
OutPathBesideInput(cfg, fp, suffix) ==
    Path(fp.dir, fp.base \o "_" \o suffix, Lower(fp.ext))

\* os.path.join(output_folder, f"{base}_{suffix}{ext}"), ext lower-cased
OutPath(cfg, fp, suffix) ==
    Path(cfg.output_folder, fp.base \o "_" \o suffix, Lower(fp.ext))

\* the early return of save_df is not taken
CanSave(d, fp) == fp # NonePath /\ d.some

\* save_df with the table dropped when the write fails
SaveDfDropsTable(d, fp, cfg, files, suffix, mk, wr) ==
    LET base == [called |-> TRUE, df_in |-> d, fp_in |-> fp, mk |-> mk,
                 wr |-> wr, ret |-> NonePath, raised |-> FALSE,
                 log |-> "none", df |-> d, file_path |-> fp, files |-> files,
                 folder |-> "", written |-> StoredFile("none", NoneDf)]
    IN IF ~CanSave(d, fp)
       THEN [base EXCEPT !.log = "no data to save"]
       ELSE IF mk = "fail"
       THEN [base EXCEPT !.raised = TRUE]
       ELSE IF wr = "fail"
       THEN [base EXCEPT !.log = "save error", !.df = NoneDf,
                         !.folder = cfg.output_folder]
       ELSE [base EXCEPT !.log = "saved",
                         !.folder = cfg.output_folder,
                         !.ret = OutPath(cfg, fp, suffix),
                         !.written = StoredFile(WriteFormat(Lower(fp.ext)), d),
                         !.files = files \cup {OutPath(cfg, fp, suffix)}]

\* save_df(suffix) on table d with path fp; mk is how os.makedirs ends and
\* wr how the write ends.  Gives the fields after the call, the files on
\* disk, the folder os.makedirs made sure of, the file written, the value
\* returned and whether an exception left save_df.
SaveDf(d, fp, cfg, files, suffix, mk, wr) ==
    LET base == [called |-> TRUE, df_in |-> d, fp_in |-> fp, mk |-> mk,
                 wr |-> wr, ret |-> NonePath, raised |-> FALSE,
                 log |-> "none", df |-> d, file_path |-> fp, files |-> files,
                 folder |-> "", written |-> StoredFile("none", NoneDf)]
    IN IF ~CanSave(d, fp)
       THEN [base EXCEPT !.log = "no data to save"]
       ELSE IF mk = "fail"
       THEN [base EXCEPT !.raised = TRUE]
       ELSE IF wr = "fail"
       THEN [base EXCEPT !.log = "save error", !.folder = cfg.output_folder]
       ELSE [base EXCEPT !.log = "saved",
                         !.folder = cfg.output_folder,
                         !.ret = OutPath(cfg, fp, suffix),
                         !.written = StoredFile(WriteFormat(Lower(fp.ext)), d),
                         !.files = files \cup {OutPath(cfg, fp, suffix)}]

\* the part of a save_df result kept as the record of the call
CallRecord(r) ==
    [called |-> r.called, df_in |-> r.df_in, fp_in |-> r.fp_in, mk |-> r.mk,
     wr |-> r.wr, ret |-> r.ret, raised |-> r.raised, log |-> r.log,
     folder |-> r.folder, written |-> r.written]

IoOutcome == {"ok", "fail"}

----------------------------------------------------------------------------
(* The handlers, as functions of the state they read and of their inputs.  *)

\* picked: the path the file dialog gave; reads: the reads load_file made,
\* in order, each with the reader (and encoding) used and whether it succeeded
NoObs(d, fp) ==
    [raised |-> FALSE, dialog |-> "none", log |-> {}, df_in |-> d,
     fp_in |-> fp, picked |-> NonePath, reads |-> <<>>]

\* the reads load_file makes of a file with extension ext (lower-cased):
\* a .csv is read with the configured encoding and, if that raises, again
\* with latin1; any other file is read once
ReadsOf(ext, file, p_ok, f_ok) ==
    LET parses == Parses(ReadFormat(ext), file.fmt)
    IN IF ext = ".csv"
       THEN IF p_ok /\ parses
            THEN <<[how |-> "csv configured encoding", ok |-> TRUE]>>
            ELSE <<[how |-> "csv configured encoding", ok |-> FALSE],
                   [how |-> "csv latin1", ok |-> f_ok /\ parses]>>
       ELSE <<[how |-> ReadFormat(ext), ok |-> p_ok /\ parses]>>

\* load_file that forgets the loaded table when the read fails
LoadFileResultDropsTable(d, fp, path, file, p_ok, f_ok) ==
    LET ext == Lower(path.ext)
        reads == ReadsOf(ext, file, p_ok, f_ok)
        read_ok == reads[Len(reads)].ok
        tried == {"opening"} \cup
                 (IF Len(reads) > 1 THEN {"trying fallback encoding"} ELSE {})
        seen == [NoObs(d, fp) EXCEPT !.picked = path, !.reads = reads]
    IN IF path = NonePath
       THEN [df |-> d, file_path |-> fp, obs |-> NoObs(d, fp)]
       ELSE IF read_ok
       THEN [df |-> file.table, file_path |-> path,
             obs |-> [seen EXCEPT !.log = tried \cup {"success"}]]
       ELSE [df |-> NoneDf, file_path |-> path,
             obs |-> [seen EXCEPT !.log = tried \cup {"load error"},
                                  !.dialog = "error"]]

\* load_file that gives up after the first failed read of a .csv
LoadFileResultNoFallback(d, fp, path, file, p_ok, f_ok) ==
    LET ext == Lower(path.ext)
        reads == <<ReadsOf(ext, file, p_ok, f_ok)[1]>>
        read_ok == reads[Len(reads)].ok
        seen == [NoObs(d, fp) EXCEPT !.picked = path, !.reads = reads]
    IN IF path = NonePath
       THEN [df |-> d, file_path |-> fp, obs |-> NoObs(d, fp)]
       ELSE IF read_ok
       THEN [df |-> file.table, file_path |-> path,
             obs |-> [seen EXCEPT !.log = {"opening", "success"}]]
       ELSE [df |-> d, file_path |-> fp,
             obs |-> [seen EXCEPT !.log = {"opening", "load error"},
                                  !.dialog = "error"]]

\* load_file: path is what the file dialog returned (NonePath: cancelled),
\* file what is stored there, p_ok whether the first read gets through (for
\* a .csv: with the configured encoding), f_ok whether the latin1 read does
LoadFileResult(d, fp, path, file, p_ok, f_ok) ==
    LET ext == Lower(path.ext)
        reads == ReadsOf(ext, file, p_ok, f_ok)
        read_ok == reads[Len(reads)].ok
        tried == {"opening"} \cup
                 (IF Len(reads) > 1 THEN {"trying fallback encoding"} ELSE {})
        seen == [NoObs(d, fp) EXCEPT !.picked = path, !.reads = reads]
    IN IF path = NonePath
       THEN [df |-> d, file_path |-> fp, obs |-> NoObs(d, fp)]
       ELSE IF read_ok
       THEN [df |-> file.table, file_path |-> path,
             obs |-> [seen EXCEPT !.log = tried \cup {"success"}]]
       ELSE [df |-> d, file_path |-> fp,
             obs |-> [seen EXCEPT !.log = tried \cup {"load error"},
                                  !.dialog = "error"]]

\* df[df['DIVISIONCODE'] == bsg_code]
OnlyBsg(d, bsg_code) ==
    Table(d.columns,
          SelectRows(d.rows,
                     {d.rows[i] : i \in {j \in 1..Len(d.rows) :
                          d.rows[j]["DIVISIONCODE"] = Str(bsg_code)}}))

\* df[df['DIVISIONCODE'] != bsg_code]
WithoutBsg(d, bsg_code) ==
    Table(d.columns,
          SelectRows(d.rows,
                     {d.rows[i] : i \in {j \in 1..Len(d.rows) :
                          d.rows[j]["DIVISIONCODE"] # Str(bsg_code)}}))

\* df[df['SUBSCRIBERSTATUSCODE'].astype(str).str.contains(act_code, na=False)]
OnlyAct(d, act_code) ==
    Table(d.columns,
          SelectRows(d.rows,
                     {d.rows[i] : i \in {j \in 1..Len(d.rows) :
                          Contains(AsTypeStr(d.rows[j]["SUBSCRIBERSTATUSCODE"]),
                                   Chars(act_code))}}))

\* remove_bsg / filter_act without the test for the column: the column
\* lookup raises KeyError
FilterResultNoColumnCheck(d, fp, cfg, files, column, filtered, suffix, logged, mk, wr) ==
    IF d.some
    THEN IF column \notin d.columns
         THEN [df |-> d, file_path |-> fp, files |-> files,
               save |-> NoSaveCall,
               obs |-> [NoObs(d, fp) EXCEPT !.raised = TRUE]]
         ELSE [df |-> filtered, file_path |-> fp, files |-> files,
               save |-> NoSaveCall,
               obs |-> [NoObs(d, fp) EXCEPT !.log = {logged}]]
    ELSE [df |-> d, file_path |-> fp, files |-> files, save |-> NoSaveCall,
          obs |-> [NoObs(d, fp) EXCEPT !.dialog = "warning"]]

\* the common shape of remove_bsg and filter_act: when the table and the
\* column are there, replace the table by the filtered one and save it if
\* auto_save is set; otherwise warn
FilterResult(d, fp, cfg, files, column, filtered, suffix, logged, mk, wr) ==
    IF d.some /\ column \in d.columns
    THEN IF cfg.auto_save
         THEN LET r == SaveDf(filtered, fp, cfg, files, suffix, mk, wr)
              IN [df |-> r.df, file_path |-> r.file_path, files |-> r.files,
                  save |-> CallRecord(r),
                  obs |-> [NoObs(d, fp) EXCEPT
                              !.raised = r.raised,
                              !.log = {logged} \cup
                                      (IF r.log = "none" THEN {} ELSE {r.log})]]
         ELSE [df |-> filtered, file_path |-> fp, files |-> files,
               save |-> NoSaveCall,
               obs |-> [NoObs(d, fp) EXCEPT !.log = {logged}]]
    ELSE [df |-> d, file_path |-> fp, files |-> files, save |-> NoSaveCall,
          obs |-> [NoObs(d, fp) EXCEPT !.dialog = "warning"]]

RemoveBsgResult(d, fp, cfg, files, mk, wr) ==
    FilterResult(d, fp, cfg, files, "DIVISIONCODE",
                 IF d.some /\ "DIVISIONCODE" \in d.columns
                 THEN WithoutBsg(d, cfg.bsg_code) ELSE d,
                 "removedbsg", "removed rows", mk, wr)

FilterActResult(d, fp, cfg, files, mk, wr) ==
    FilterResult(d, fp, cfg, files, "SUBSCRIBERSTATUSCODE",
                 IF d.some /\ "SUBSCRIBERSTATUSCODE" \in d.columns
                 THEN OnlyAct(d, cfg.act_code) ELSE d,
                 "actfiltered", "filtered rows", mk, wr)

\* the body of run_full_process once the table is known to be loaded: the
\* table it leaves in self.df
FullProcessTable(d, mfull, mdf) == d

----------------------------------------------------------------------------
(* ConfigManager. A Python dict is an object: heap maps the name of every  *)
(* live dict to its content. A dict holds a cell under every key of        *)
(* ConfigKeys, Absent under a key it does not have; a nested dict is held  *)
(* by reference.                                                           *)

ConfigKeys ==
    {"theme", "last_updated", "ui", "font_family", "font_size", "extra"}

Ref(id) == [t |-> "ref", s |-> id, n |-> 0]

\* isinstance(value, dict)
IsDict(c) == c.t = "ref"

EmptyDict == [k \in ConfigKeys |-> Absent]

MkDict(r) == [k \in ConfigKeys |-> IF k \in DOMAIN r THEN r[k] ELSE Absent]

\* the dict created or merged under key of the dict named id
Child(id, key) == id \o "." \o key

\* datetime.now().isoformat()
Stamp == [t |-> "time", s |-> "", n |-> 0]

\* the class attribute DEFAULT_CONFIG as the source text gives it
FactoryHeap ==
    ("DEFAULT_CONFIG" :>
         MkDict([theme |-> Str("light"), last_updated |-> Str(""),
                 ui |-> Ref("DEFAULT_CONFIG.ui")]))
    @@ ("DEFAULT_CONFIG.ui" :>
            MkDict([font_family |-> Str("Segoe UI"), font_size |-> Int_(9)]))

\* toolkit_config.json at startup: absent, unreadable, or a JSON object
\* (held as the dicts json.load builds)
FileMissing ==
    [exists |-> FALSE, parses |-> FALSE, objs |-> ("loaded" :> EmptyDict)]

FileCorrupt ==
    [exists |-> TRUE, parses |-> FALSE, objs |-> ("loaded" :> EmptyDict)]

FileTheme ==
    [exists |-> TRUE, parses |-> TRUE,
     objs |-> ("loaded" :> MkDict([theme |-> Str("dark")]))]

FileUi ==
    [exists |-> TRUE, parses |-> TRUE,
     objs |-> ("loaded" :> MkDict([ui |-> Ref("loaded.ui")]))
              @@ ("loaded.ui" :> MkDict([font_size |-> Int_(12)]))]

\* a scalar where the defaults have a section, and a section of its own
FileOdd ==
    [exists |-> TRUE, parses |-> TRUE,
     objs |-> ("loaded" :> MkDict([ui |-> Str("dark"),
                                   extra |-> Ref("loaded.extra")]))
              @@ ("loaded.extra" :> MkDict([font_size |-> Int_(12)]))]

ConfigFiles == {FileMissing, FileCorrupt, FileTheme, FileUi, FileOdd}

\* the key paths and values the callers pass
KeyPaths ==
    {<<"theme">>, <<"last_updated">>, <<"ui">>, <<"ui", "font_size">>,
     <<"extra">>, <<"extra", "font_size">>, <<"theme", "font_size">>,
     <<"ui", "font_size", "extra">>}

ConfigValues == {Str("dark"), Int_(12)}

\* dict.copy(): a new dict dst with the cells of src; nested dicts are
\* shared, not copied
ShallowCopy(h, src, dst) ==
    [id \in DOMAIN h \cup {dst} |-> IF id = dst THEN h[src] ELSE h[id]]

\* the dicts a live dict refers to, and so on
RECURSIVE Reach(_, _)
Reach(h, ids) ==
    LET held == {x \in ids \X ConfigKeys : IsDict(h[x[1]][x[2]])}
        more == ids \cup {h[x[1]][x[2]].s : x \in held}
    IN IF more = ids THEN ids ELSE Reach(h, more)

\* the heap without the dicts nothing refers to any more
Collect(h) ==
    [id \in Reach(h, {"DEFAULT_CONFIG", "self.config"} \cap DOMAIN h) |-> h[id]]

\* _merge_dicts: result is a copy of base; a key of override whose value and
\* whose value in result are both dicts is merged into a new dict, any other
\* key of override replaces the value in result
RECURSIVE MergeDicts(_, _, _, _)
RECURSIVE MergeItems(_, _, _, _)

\* the loop of _merge_dicts without the recursion: every key of override
\* replaces the value in result
MergeItemsFlat(h, override, result, keys) ==
    [h EXCEPT ![result] =
        [k \in ConfigKeys |->
            IF k \in keys /\ h[override][k] # Absent
            THEN h[override][k] ELSE h[result][k]]]

MergeItems(h, override, result, keys) ==
    IF keys = {} THEN h
    ELSE LET key == CHOOSE k \in keys : TRUE
             value == h[override][key]
             h1 == IF value = Absent
                   THEN h
                   ELSE IF IsDict(h[result][key]) /\ IsDict(value)
                   THEN [MergeDicts(h, h[result][key].s, value.s,
                                    Child(result, key))
                            EXCEPT ![result][key] = Ref(Child(result, key))]
                   ELSE [h EXCEPT ![result][key] = value]
         IN MergeItems(h1, override, result, keys \ {key})

MergeDicts(h, base, override, result) ==
    MergeItems(ShallowCopy(h, base, result), override, result, ConfigKeys)

\* load_config: the defaults merged with the file, or a copy of the defaults
LoadConfig(file) ==
    IF file.exists /\ file.parses
    THEN MergeDicts(file.objs @@ FactoryHeap, "DEFAULT_CONFIG", "loaded",
                    "self.config")
    ELSE ShallowCopy(FactoryHeap, "DEFAULT_CONFIG", "self.config")

\* __init__
NewConfigManager(file) ==
    Collect([LoadConfig(file) EXCEPT !["self.config"]["last_updated"] = Stamp])

\* save_config: stamps self.config, then writes the file; a failed write is
\* printed and swallowed
SaveConfig(h, save_ok) == [h EXCEPT !["self.config"]["last_updated"] = Stamp]

\* get: the walk down from value
RECURSIVE GetFrom(_, _, _)
GetFrom(h, value, keys) ==
    IF keys = <<>>
    THEN [found |-> TRUE, value |-> value]
    ELSE IF IsDict(value) /\ h[value.s][Head(keys)] # Absent
    THEN GetFrom(h, h[value.s][Head(keys)], Tail(keys))
    ELSE [found |-> FALSE, value |-> Absent]

\* get(*keys, default=default)
Get(h, keys, default) ==
    LET r == GetFrom(h, Ref("self.config"), keys)
    IN IF r.found THEN r.value ELSE default

\* the body of set before save_config: the walk down from self.config, making an
\* empty dict for every absent key but the last; a value on the way that is
\* no dict ends the call with a TypeError
RECURSIVE SetFrom(_, _, _, _, _)
SetFrom(h, conf, keys, v, made) ==
    IF ~IsDict(conf)
    THEN [heap |-> h, raised |-> TRUE, created |-> made]
    ELSE IF Len(keys) = 1
    THEN [heap |-> [h EXCEPT ![conf.s][Head(keys)] = v],
          raised |-> FALSE, created |-> made]
    ELSE LET key == Head(keys)
             new == Child(conf.s, key)
             absent == h[conf.s][key] = Absent
             h1 == IF absent
                   THEN [((new :> EmptyDict) @@ h)
                            EXCEPT ![conf.s][key] = Ref(new)]
                   ELSE h
         IN SetFrom(h1, h1[conf.s][key], Tail(keys), v,
                    IF absent THEN made \cup {new} ELSE made)

\* set that undoes the assignment when the file cannot be written
ConfigSetRollsBack(h, keys, v, save_ok) ==
    LET r == SetFrom(h, Ref("self.config"), keys, v, {})
    IN IF r.raised \/ ~save_ok
       THEN [heap |-> h, raised |-> r.raised, created |-> {}]
       ELSE [heap |-> Collect(SaveConfig(r.heap, save_ok)),
             raised |-> FALSE, created |-> r.created]

\* set(*keys, value=v)
ConfigSet(h, keys, v, save_ok) ==
    LET r == SetFrom(h, Ref("self.config"), keys, v, {})
    IN IF r.raised
       THEN [heap |-> Collect(r.heap), raised |-> TRUE, created |-> r.created]
       ELSE [heap |-> Collect(SaveConfig(r.heap, save_ok)),
             raised |-> FALSE, created |-> r.created]

\* reset_to_defaults
ResetToDefaults(h, save_ok) ==
    Collect(SaveConfig(ShallowCopy(h, "DEFAULT_CONFIG", "self.config"), save_ok))

NoConfigOp ==
    [op |-> "init", file |-> FileMissing, keys |-> <<>>, value |-> Null,
     save_ok |-> TRUE, raised |-> FALSE, created |-> {}]

----------------------------------------------------------------------------
(* Threads and widgets. The Tk main thread runs the handlers and the       *)
(* callbacks queued with parent.after; every threading.Thread the handlers *)
(* start is a worker. touched holds the widget accesses of the last step,  *)
(* each with the thread whose code made it.                                *)

Touch(w, thread) == [widget |-> w, by |-> thread]

By(thread, widgets) == {Touch(w, thread) : w \in widgets}

\* the workbook to choose: a sheet with rows and an empty one
BookMixed == Path("/in", "mixed", ".xlsx")

Workbooks == {BookMixed}

\* wb.sheetnames with list(ws.values) of each sheet
Sheets(book) ==
    IF book = BookMixed
    THEN <<[name |-> "Data", rows |-> TRUE], [name |-> "Blank", rows |-> FALSE]>>
    ELSE <<>>

\* a worker thread: what it runs, where it is, and the locals of
\* convert.worker (the workbook, the sheet index, the files exported)
Worker(kind, at) ==
    [kind |-> kind, pc |-> at, book |-> NonePath, split |-> FALSE, i |-> 0,
     exported |-> <<>>]

NoRun ==
    [done |-> FALSE, failed |-> FALSE, book |-> NonePath, split |-> FALSE,
     exported |-> <<>>]

\* the sequence without its k-th element
Without(seq, k) == SubSeq(seq, 1, k - 1) \o SubSeq(seq, k + 1, Len(seq))

\* _set_progress called by thread: the update is queued with parent.after,
\* or made at once by the calling thread when parent.after raises
SetProgress(thread, after_ok) ==
    IF after_ok
    THEN [queued |-> <<"_update">>, touched |-> {}]
    ELSE [queued |-> <<>>,
          touched |-> By(thread, {"merger.prog", "merger.stat_var"})]

\* the widgets a queued callback reaches
CallbackWidgets(cb) ==
    IF cb = "_update" THEN {"merger.prog", "merger.stat_var"}
    ELSE IF cb = "on_load_success"
    THEN {"merger.stat_var", "merger.match", "merger.prev_btn", "merger.merge_btn"}
    ELSE IF cb = "populate_preview_tree" THEN {"merger.preview_tree"}
    ELSE {"messagebox"}

\* the file convert.worker writes for a sheet
SheetCsv(fp, sheet) ==
    Path(fp.dir \o "/converted_csvs", fp.base \o "_" \o sheet, ".csv")

\* the converter after __init__, no worker started, nothing queued
UiAtRest ==
    /\ xl = [file_path |-> NonePath, split_sheets |-> TRUE, skip_empty |-> TRUE]
    /\ workers = <<>>
    /\ ui_queue = <<>>
    /\ touched = {}
    /\ conv_run = NoRun

----------------------------------------------------------------------------
(* EnhancedCSVMerger: the two tables, the key boxes, the columns to pull   *)
(* and the two buttons.  A table is kept by its columns; its rows are read *)
(* only by merge_worker, on copies.                                        *)

NoneTable == [some |-> FALSE, columns |-> <<>>]

MergerTable(cols) == [some |-> TRUE, columns |-> cols]

\* str.strip on the headers and on the text of a key box
Strip(s) ==
    IF s = "CODE " THEN "CODE"
    ELSE IF s = " NAME" THEN "NAME"
    ELSE s

\* the headers of the CSV files on disk, as read_csv returns them
PrimaryCsv == <<"ID", " NAME">>

SourceCsv == <<"CODE ">>

MergerDisk == {PrimaryCsv, SourceCsv}

\* the worker of load_data: "Clean columns"
CleanColumns(header) == [i \in 1..Len(header) |-> Strip(header[i])]

\* str.lower of a column name, letter by letter
LowerChars(c) ==
    IF c = "ID" THEN <<"i", "d">>
    ELSE IF c = "NAME" THEN <<"n", "a", "m", "e">>
    ELSE IF c = "CODE" THEN <<"c", "o", "d", "e">>
    ELSE <<>>

\* what the user has typed in a key search box, lower-cased
SearchTerms == {<<>>, <<"n", "a">>}

\* search_term in c.lower()
TermIn(term, c) ==
    LET hay == LowerChars(c)
    IN \E i \in 0..(Len(hay) - Len(term)) :
          \A k \in 1..Len(term) : hay[i + k] = term[k]

RECURSIVE Filtered(_, _)
Filtered(cols, term) ==
    IF cols = <<>> THEN <<>>
    ELSE IF TermIn(term, Head(cols))
         THEN <<Head(cols)>> \o Filtered(Tail(cols), term)
         ELSE Filtered(Tail(cols), term)

\* filter_key_list: the key box gets the matching columns and shows the first
FilterKeyList(cols, term) ==
    LET filtered == Filtered(cols, term)
    IN [values |-> filtered,
        value  |-> IF filtered # <<>> THEN filtered[1] ELSE ""]

NoKeyBox == [values |-> <<>>, value |-> ""]

Range(s) == {s[i] : i \in 1..Len(s)}

\* self.pull_vars: one BooleanVar per column
NoPullVars == [c \in {} |-> FALSE]

Checked(pv) == {c \in DOMAIN pv : pv[c]}

\* a thread of the merger: the worker of load_data, or preview_worker /
\* merge_worker_thread inside perform_merge with what it has read so far
LoadThread(n) ==
    [kind |-> "load", file_num |-> n, at |-> "read",
     key1 |-> "", key2 |-> "", pull_cols |-> {}]

MergeThread ==
    [kind |-> "merge", file_num |-> 0, at |-> "read",
     key1 |-> "", key2 |-> "", pull_cols |-> {}]

\* a callback queued with parent.after
Callback(cb, n, t) == [cb |-> cb, file_num |-> n, df |-> t]

\* how a call of perform_merge ended
MergeEnd(th, ret, dialog, started) ==
    [key1 |-> th.key1, key2 |-> th.key2, pull_cols |-> th.pull_cols,
     ret |-> ret, dialog |-> dialog, worker_started |-> started]

NoMergeCall == MergeEnd(MergeThread, "pending", "none", FALSE)

\* the validation of perform_merge on the keys and columns it has read
ReadCheck(th) ==
    IF th.key1 = "" \/ th.key2 = "" THEN "Missing Keys"
    ELSE IF th.pull_cols = {} THEN "No Columns Selected"
    ELSE "ok"

\* "if self.df1 is None or self.df2 is None"
LoadedCheck(d1, d2) ==
    IF ~d1.some \/ ~d2.some THEN "Missing Data" ELSE "ok"

\* the two tests on .columns; None has no columns attribute
KeysCheck(th, d1, d2) ==
    IF ~d1.some THEN "AttributeError"
    ELSE IF th.key1 \notin Range(d1.columns) THEN "Key Error"
    ELSE IF ~d2.some THEN "AttributeError"
    ELSE IF th.key2 \notin Range(d2.columns) THEN "Key Error"
    ELSE "ok"

\* on_load_success, "Enable buttons if both files loaded"
ButtonsAfterLoadAlways(d1, d2, btn) == "normal"

ButtonsAfterLoad(d1, d2, btn) ==
    IF d1.some /\ d2.some THEN "normal" ELSE btn

\* the merger after __init__ and setup_ui
MergerAtRest ==
    /\ df1 = NoneTable
    /\ df2 = NoneTable
    /\ s_var = [f1 |-> <<>>, f2 |-> <<>>]
    /\ match_f1 = NoKeyBox
    /\ match_f2 = NoKeyBox
    /\ pull_vars = NoPullVars
    /\ prev_btn = "disabled"
    /\ merge_btn = "disabled"
    /\ m_threads = <<>>
    /\ m_queue = <<>>
    /\ merge_call = NoMergeCall

----------------------------------------------------------------------------
(* The Tk main thread runs one handler at a time; a modal message box      *)
(* keeps its handler on the stack and takes the clicks until dismissed.    *)

\* a dialog that does not hold back the other handlers
UiIdleAlways == TRUE

UiIdle == pc = "idle"

\* the processor after __init__, with one of maps as MAP.csv
ProcInit(maps) ==
    /\ df = NoneDf
    /\ file_path = NonePath
    /\ \E disk \in maps :
          LET r == LoadMapResult(NoneMap, NoneMap, disk)
          IN /\ map_full_df = r.map_full_df
             /\ map_df = r.map_df
             /\ obs = [NoObs(NoneDf, NonePath) EXCEPT
                          !.log = {"system initialized", r.log}]
    /\ config = DefaultConfig
    /\ out_files = {}
    /\ pc = "idle"
    /\ active_runs = 0
    /\ full_btn = "normal"
    /\ last_op = "init"
    /\ save_call = NoSaveCall

Init ==
    /\ ProcInit(MapDisk)
    /\ heap = NewConfigManager(FileMissing)
    /\ cfg_op = NoConfigOp
    /\ UiAtRest
    /\ MergerAtRest

\* "Reload MAP.csv"
LoadMapSilent ==
    /\ UiIdle
    /\ \E disk \in MapDisk :
          LET r == LoadMapResult(map_full_df, map_df, disk)
          IN /\ map_full_df' = r.map_full_df
             /\ map_df' = r.map_df
             /\ obs' = [NoObs(df, file_path) EXCEPT !.log = {r.log}]
    /\ last_op' = "load_map_silent"
    /\ save_call' = NoSaveCall
    /\ UNCHANGED <<df, file_path, config, out_files, pc, active_runs, full_btn>>
    /\ UNCHANGED <<cfgVars, uiVars, mergerVars>>

\* load_file that also forgets the reference tables
LoadFileClearsMap ==
    /\ UiIdle
    /\ \E path \in DataPaths \cup {NonePath}, p_ok \in BOOLEAN, f_ok \in BOOLEAN :
          LET r == LoadFileResult(df, file_path, path, DiskFile(path), p_ok, f_ok)
          IN /\ df' = r.df
             /\ file_path' = r.file_path
             /\ obs' = r.obs
    /\ last_op' = "load_file"
    /\ save_call' = NoSaveCall
    /\ map_full_df' = NoneMap
    /\ map_df' = NoneMap
    /\ UNCHANGED <<config, out_files, pc, active_runs, full_btn>>
    /\ UNCHANGED <<cfgVars, uiVars, mergerVars>>

\* "Select Data File"
LoadFile ==
    /\ UiIdle
    /\ \E path \in DataPaths \cup {NonePath}, p_ok \in BOOLEAN, f_ok \in BOOLEAN :
          LET r == LoadFileResult(df, file_path, path, DiskFile(path), p_ok, f_ok)
          IN /\ df' = r.df
             /\ file_path' = r.file_path
             /\ obs' = r.obs
    /\ last_op' = "load_file"
    /\ save_call' = NoSaveCall
    /\ UNCHANGED <<map_full_df, map_df, config, out_files, pc, active_runs,
                   full_btn>>
    /\ UNCHANGED <<cfgVars, uiVars, mergerVars>>

\* "Remove BSG"
RemoveBsg ==
    /\ UiIdle
    /\ \E mk \in IoOutcome, wr \in IoOutcome :
          LET r == RemoveBsgResult(df, file_path, config, out_files, mk, wr)
          IN /\ df' = r.df
             /\ file_path' = r.file_path
             /\ out_files' = r.files
             /\ save_call' = r.save
             /\ obs' = r.obs
    /\ last_op' = "remove_bsg"
    /\ UNCHANGED <<map_full_df, map_df, config, pc, active_runs, full_btn>>
    /\ UNCHANGED <<cfgVars, uiVars, mergerVars>>

\* "Filter ACT"
FilterAct ==
    /\ UiIdle
    /\ \E mk \in IoOutcome, wr \in IoOutcome :
          LET r == FilterActResult(df, file_path, config, out_files, mk, wr)
          IN /\ df' = r.df
             /\ file_path' = r.file_path
             /\ out_files' = r.files
             /\ save_call' = r.save
             /\ obs' = r.obs
    /\ last_op' = "filter_act"
    /\ UNCHANGED <<map_full_df, map_df, config, pc, active_runs, full_btn>>
    /\ UNCHANGED <<cfgVars, uiVars, mergerVars>>

\* "Full Process": without a table it warns and returns; with one it logs,
\* leaves the table as FullProcessTable gives it and blocks in the modal
\* "Note" dialog
RunFullProcess ==
    /\ UiIdle
    /\ active_runs < MaxActiveRuns
    /\ IF ~df.some
       THEN /\ obs' = [NoObs(df, file_path) EXCEPT !.dialog = "warning"]
            /\ UNCHANGED <<df, pc, active_runs>>
       ELSE /\ df' = FullProcessTable(df, map_full_df, map_df)
            /\ obs' = [NoObs(df, file_path) EXCEPT
                          !.log = {"full processing started"},
                          !.dialog = "info"]
            /\ pc' = "full_process_dialog"
            /\ active_runs' = active_runs + 1
    /\ last_op' = "run_full_process"
    /\ save_call' = NoSaveCall
    /\ UNCHANGED <<file_path, map_full_df, map_df, config, out_files, full_btn>>
    /\ UNCHANGED <<cfgVars, uiVars, mergerVars>>

\* the "Note" dialog is dismissed and run_full_process returns
FullProcessReturn ==
    /\ pc = "full_process_dialog"
    /\ active_runs > 0
    /\ active_runs' = active_runs - 1
    /\ pc' = IF active_runs = 1 THEN "idle" ELSE "full_process_dialog"
    /\ last_op' = "run_full_process_return"
    /\ UNCHANGED <<df, file_path, map_full_df, map_df, config, out_files,
                   full_btn, obs, save_call>>
    /\ UNCHANGED <<cfgVars, uiVars, mergerVars>>

\* the settings dialog stores the data_processor settings
SaveSettings ==
    /\ UiIdle
    /\ \E c \in Configs : config' = c
    /\ obs' = [NoObs(df, file_path) EXCEPT !.dialog = "info"]
    /\ last_op' = "save_settings"
    /\ save_call' = NoSaveCall
    /\ UNCHANGED <<df, file_path, map_full_df, map_df, out_files, pc,
                   active_runs, full_btn>>
    /\ UNCHANGED <<cfgVars, uiVars, mergerVars>>

Next ==
    \/ LoadMapSilent
    \/ LoadFile
    \/ RemoveBsg
    \/ FilterAct
    \/ RunFullProcess
    \/ FullProcessReturn
    \/ SaveSettings

Spec == Init /\ [][Next]_vars

----------------------------------------------------------------------------
(* The settings store: the calls on the ConfigManager.                     *)

InitConfig ==
    /\ ProcInit({[exists |-> TRUE, readable |-> TRUE, table |-> Map9]})
    /\ \E file \in ConfigFiles :
          /\ heap = NewConfigManager(file)
          /\ cfg_op = [NoConfigOp EXCEPT !.file = file]
    /\ UiAtRest
    /\ MergerAtRest

\* config.set(*keys, value=v)
ConfigManagerSet ==
    /\ \E keys \in KeyPaths, v \in ConfigValues, save_ok \in BOOLEAN :
          LET r == ConfigSet(heap, keys, v, save_ok)
          IN /\ heap' = r.heap
             /\ cfg_op' = [NoConfigOp EXCEPT
                              !.op = "set", !.keys = keys, !.value = v,
                              !.save_ok = save_ok, !.raised = r.raised,
                              !.created = r.created]
    /\ UNCHANGED <<procVars, uiVars, mergerVars>>

\* config.reset_to_defaults()
ConfigManagerReset ==
    /\ \E save_ok \in BOOLEAN :
          /\ heap' = ResetToDefaults(heap, save_ok)
          /\ cfg_op' = [NoConfigOp EXCEPT !.op = "reset_to_defaults",
                                          !.save_ok = save_ok]
    /\ UNCHANGED <<procVars, uiVars, mergerVars>>

NextConfig ==
    \/ ConfigManagerSet
    \/ ConfigManagerReset

SpecConfig == InitConfig /\ [][NextConfig]_vars

----------------------------------------------------------------------------
(* The Excel converter and the worker threads of the merger.               *)

InitUi ==
    /\ ProcInit({[exists |-> TRUE, readable |-> TRUE, table |-> Map9]})
    /\ heap = NewConfigManager(FileMissing)
    /\ cfg_op = NoConfigOp
    /\ UiAtRest
    /\ MergerAtRest

\* EnhancedExcelConverter.select_file
SelectFile ==
    /\ \E path \in Workbooks \cup {NonePath} :
          IF path # NonePath
          THEN /\ xl' = [xl EXCEPT !.file_path = path]
               /\ touched' = By("main", {"filedialog", "converter.entry_file",
                                         "converter.status_label"})
          ELSE /\ xl' = xl
               /\ touched' = By("main", {"filedialog"})
    /\ UNCHANGED <<workers, ui_queue, conv_run>>
    /\ UNCHANGED <<procVars, cfgVars, mergerVars>>

\* the "Export each sheet to separate CSV" checkbox
ToggleSplitSheets ==
    /\ xl' = [xl EXCEPT !.split_sheets = ~xl.split_sheets]
    /\ touched' = By("main", {"converter.split_sheets"})
    /\ UNCHANGED <<workers, ui_queue, conv_run>>
    /\ UNCHANGED <<procVars, cfgVars, mergerVars>>

\* the "Skip empty sheets" checkbox
ToggleSkipEmpty ==
    /\ xl' = [xl EXCEPT !.skip_empty = ~xl.skip_empty]
    /\ touched' = By("main", {"converter.skip_empty"})
    /\ UNCHANGED <<workers, ui_queue, conv_run>>
    /\ UNCHANGED <<procVars, cfgVars, mergerVars>>

\* EnhancedExcelConverter.convert: warns without a file; else makes the
\* output folder and starts the worker
Convert ==
    /\ IF xl.file_path = NonePath
       THEN /\ touched' = By("main", {"messagebox"})
            /\ workers' = workers
       ELSE /\ Len(workers) < MaxWorkers
            /\ touched' = {}
            /\ \E mk_ok \in BOOLEAN :
                  workers' = IF mk_ok
                             THEN Append(workers, Worker("convert", "start"))
                             ELSE workers
    /\ UNCHANGED <<xl, ui_queue, conv_run>>
    /\ UNCHANGED <<procVars, cfgVars, mergerVars>>

\* convert.worker: the progress bar and the status label are set
ConvertStart ==
    /\ \E k \in 1..Len(workers) :
          /\ workers[k].kind = "convert" /\ workers[k].pc = "start"
          /\ workers' = [workers EXCEPT ![k].pc = "load"]
    /\ touched' = By("worker", {"converter.progress", "converter.status_label"})
    /\ UNCHANGED <<xl, ui_queue, conv_run>>
    /\ UNCHANGED <<procVars, cfgVars, mergerVars>>

\* convert.worker: load_workbook(self.file_path), then the test of the
\* split checkbox; only with the box checked the sheets are gone through
ConvertLoad ==
    /\ \E k \in 1..Len(workers), load_ok \in BOOLEAN :
          /\ workers[k].kind = "convert" /\ workers[k].pc = "load"
          /\ IF ~load_ok
             THEN /\ workers' = [workers EXCEPT ![k].pc = "except",
                                                ![k].book = xl.file_path]
                  /\ touched' = {}
             ELSE /\ workers' =
                        [workers EXCEPT
                            ![k].book = xl.file_path,
                            ![k].split = xl.split_sheets,
                            ![k].i = 1,
                            ![k].pc = IF xl.split_sheets
                                         /\ Sheets(xl.file_path) # <<>>
                                      THEN "sheet" ELSE "finish"]
                  /\ touched' = By("worker", {"converter.split_sheets"})
    /\ UNCHANGED <<xl, ui_queue, conv_run>>
    /\ UNCHANGED <<procVars, cfgVars, mergerVars>>

\* convert.worker: one pass of the loop over the sheets
ConvertSheet ==
    /\ \E k \in 1..Len(workers), wr_ok \in BOOLEAN :
          LET w == workers[k]
              sheet == Sheets(w.book)[w.i]
              next == IF w.i < Len(Sheets(w.book)) THEN "sheet" ELSE "finish"
              shown == {"converter.progress", "converter.status_label", "parent"}
          IN /\ w.kind = "convert" /\ w.pc = "sheet"
             /\ IF ~sheet.rows
                THEN \* empty: skipped with `continue`, or passed over
                     /\ workers' = [workers EXCEPT ![k].i = w.i + 1,
                                                   ![k].pc = next]
                     /\ touched' =
                           By("worker", {"converter.skip_empty"}
                                        \cup IF xl.skip_empty THEN {} ELSE shown)
                ELSE IF ~wr_ok
                THEN /\ workers' = [workers EXCEPT ![k].pc = "except"]
                     /\ touched' = {}
                ELSE /\ workers' =
                           [workers EXCEPT
                               ![k].exported =
                                   Append(w.exported,
                                          SheetCsv(xl.file_path, sheet.name)),
                               ![k].i = w.i + 1,
                               ![k].pc = next]
                     /\ touched' = By("worker", shown)
    /\ UNCHANGED <<xl, ui_queue, conv_run>>
    /\ UNCHANGED <<procVars, cfgVars, mergerVars>>

\* convert.worker: the end of the try block
ConvertFinish ==
    /\ \E k \in 1..Len(workers) :
          LET w == workers[k]
          IN /\ w.kind = "convert" /\ w.pc = "finish"
             /\ conv_run' = [done |-> TRUE, failed |-> FALSE, book |-> w.book,
                             split |-> w.split, exported |-> w.exported]
             /\ touched' =
                   By("worker", {"converter.progress", "converter.status_label"}
                                \cup IF w.exported # <<>> THEN {"messagebox"}
                                     ELSE {})
             /\ workers' = Without(workers, k)
    /\ UNCHANGED <<xl, ui_queue>>
    /\ UNCHANGED <<procVars, cfgVars, mergerVars>>

\* convert.worker: the except block
ConvertExcept ==
    /\ \E k \in 1..Len(workers) :
          LET w == workers[k]
          IN /\ w.kind = "convert" /\ w.pc = "except"
             /\ conv_run' = [done |-> TRUE, failed |-> TRUE, book |-> w.book,
                             split |-> w.split, exported |-> w.exported]
             /\ workers' = Without(workers, k)
    /\ touched' = By("worker", {"messagebox", "converter.status_label",
                                "converter.progress"})
    /\ UNCHANGED <<xl, ui_queue>>
    /\ UNCHANGED <<procVars, cfgVars, mergerVars>>

\* EnhancedCSVMerger.load_data with a path in the entry: the status is set,
\* _set_progress(5) is called and the worker is started
LoadData ==
    /\ Len(workers) < MaxWorkers
    /\ \E after_ok \in BOOLEAN :
          LET p == SetProgress("main", after_ok)
          IN /\ Len(ui_queue) + Len(p.queued) <= MaxQueue
             /\ ui_queue' = ui_queue \o p.queued
             /\ touched' = By("main", {"merger.file_path", "merger.stat_var"})
                           \cup p.touched
    /\ workers' = Append(workers, Worker("load_data", "read"))
    /\ UNCHANGED <<xl, conv_run>>
    /\ UNCHANGED <<procVars, cfgVars, mergerVars>>

\* load_data.worker up to the read: progress, then read_csv; a failed read
\* queues the error box and ends the worker
LoadDataRead ==
    /\ \E k \in 1..Len(workers), after_ok \in BOOLEAN, read_ok \in BOOLEAN :
          LET p == SetProgress("worker", after_ok)
              q == IF read_ok \/ ~after_ok THEN p.queued
                   ELSE <<"showerror">> \o p.queued
          IN /\ workers[k].kind = "load_data" /\ workers[k].pc = "read"
             /\ Len(ui_queue) + Len(q) <= MaxQueue
             /\ ui_queue' = ui_queue \o q
             /\ touched' = p.touched
             /\ workers' = IF read_ok
                           THEN [workers EXCEPT ![k].pc = "loaded"]
                           ELSE Without(workers, k)
    /\ UNCHANGED <<xl, conv_run>>
    /\ UNCHANGED <<procVars, cfgVars, mergerVars>>

\* load_data.worker after the read: progress, on_load_success queued,
\* progress again
LoadDataDeliver ==
    /\ \E k \in 1..Len(workers), after_ok \in BOOLEAN :
          LET p == SetProgress("worker", after_ok)
              q == IF after_ok THEN <<"on_load_success">> \o p.queued ELSE <<>>
          IN /\ workers[k].kind = "load_data" /\ workers[k].pc = "loaded"
             /\ Len(ui_queue) + Len(q) <= MaxQueue
             /\ ui_queue' = ui_queue \o q
             /\ touched' = p.touched
             /\ workers' = Without(workers, k)
    /\ UNCHANGED <<xl, conv_run>>
    /\ UNCHANGED <<procVars, cfgVars, mergerVars>>

\* EnhancedCSVMerger.show_preview: starts preview_worker
ShowPreview ==
    /\ Len(workers) < MaxWorkers
    /\ workers' = Append(workers, Worker("preview", "perform_merge"))
    /\ touched' = {}
    /\ UNCHANGED <<xl, ui_queue, conv_run>>
    /\ UNCHANGED <<procVars, cfgVars, mergerVars>>

\* EnhancedCSVMerger.process_merge: starts save_worker
ProcessMerge ==
    /\ Len(workers) < MaxWorkers
    /\ workers' = Append(workers, Worker("save", "perform_merge"))
    /\ touched' = {}
    /\ UNCHANGED <<xl, ui_queue, conv_run>>
    /\ UNCHANGED <<procVars, cfgVars, mergerVars>>

\* preview_worker / save_worker: _set_progress, then perform_merge run by
\* the worker itself: the key boxes and the column checkboxes are read; a
\* failed validation or a failed merge shows its box and gives None; else
\* the worker spins parent.update() until merge_worker is done
PerformMerge ==
    /\ \E k \in 1..Len(workers), after_ok \in BOOLEAN,
          outcome \in {"invalid", "error", "merged"} :
          LET p == SetProgress("worker", after_ok)
              read == {"merger.match_f1", "merger.match_f2", "merger.pull_vars"}
          IN /\ workers[k].kind \in {"preview", "save"}
             /\ workers[k].pc = "perform_merge"
             /\ Len(ui_queue) + Len(p.queued) <= MaxQueue
             /\ ui_queue' = ui_queue \o p.queued
             /\ touched' =
                   p.touched
                   \cup By("worker",
                           read \cup (IF outcome = "invalid" THEN {"messagebox"}
                                      ELSE IF outcome = "error"
                                      THEN {"parent", "messagebox"}
                                      ELSE {"parent"}))
             /\ workers' = IF outcome = "merged"
                           THEN [workers EXCEPT ![k].pc = "deliver"]
                           ELSE Without(workers, k)
    /\ UNCHANGED <<xl, conv_run>>
    /\ UNCHANGED <<procVars, cfgVars, mergerVars>>

\* preview_worker / save_worker with the merged table: the preview is
\* queued for the tree; the save asks for the path in the worker, writes
\* and queues the box that tells how it went
MergeDeliver ==
    /\ \E k \in 1..Len(workers), after_ok \in BOOLEAN, picked \in BOOLEAN,
          wr_ok \in BOOLEAN :
          LET p == SetProgress("worker", after_ok)
              preview == workers[k].kind = "preview"
              q == IF ~after_ok THEN <<>>
                   ELSE IF preview THEN <<"populate_preview_tree">> \o p.queued
                   ELSE IF ~picked THEN p.queued
                   ELSE IF wr_ok THEN <<"showinfo">> \o p.queued
                   ELSE <<"showerror">> \o p.queued
          IN /\ workers[k].kind \in {"preview", "save"}
             /\ workers[k].pc = "deliver"
             /\ Len(ui_queue) + Len(q) <= MaxQueue
             /\ ui_queue' = ui_queue \o q
             /\ touched' = p.touched
                           \cup IF preview THEN {}
                                ELSE By("worker", {"filedialog"})
             /\ workers' = Without(workers, k)
    /\ UNCHANGED <<xl, conv_run>>
    /\ UNCHANGED <<procVars, cfgVars, mergerVars>>

\* the Tk main loop runs the oldest queued callback
UiLoop ==
    /\ ui_queue # <<>>
    /\ touched' = By("main", CallbackWidgets(Head(ui_queue)))
    /\ ui_queue' = Tail(ui_queue)
    /\ UNCHANGED <<xl, workers, conv_run>>
    /\ UNCHANGED <<procVars, cfgVars, mergerVars>>

NextUi ==
    \/ SelectFile
    \/ ToggleSplitSheets
    \/ ToggleSkipEmpty
    \/ Convert
    \/ ConvertStart
    \/ ConvertLoad
    \/ ConvertSheet
    \/ ConvertFinish
    \/ ConvertExcept
    \/ LoadData
    \/ LoadDataRead
    \/ LoadDataDeliver
    \/ ShowPreview
    \/ ProcessMerge
    \/ PerformMerge
    \/ MergeDeliver
    \/ UiLoop

SpecUi == InitUi /\ [][NextUi]_vars

----------------------------------------------------------------------------
(* The CSV merger.  The handlers and the parent.after callbacks run on the *)
(* Tk main thread, one at a time; the workers run beside them, and         *)
(* perform_merge is run by a worker, so the main thread can act between    *)
(* two of its reads.  The askyesno of clear_all is answered in the same    *)
(* step: clear_all assigns only after the box has returned.                *)

InitMerger ==
    /\ ProcInit({[exists |-> TRUE, readable |-> TRUE, table |-> Map9]})
    /\ heap = NewConfigManager(FileMissing)
    /\ cfg_op = NoConfigOp
    /\ UiAtRest
    /\ MergerAtRest

\* "Browse": a file is picked and load_data starts its worker
Browse(n) ==
    /\ Len(m_threads) + Len(m_queue) < MaxInFlight
    /\ m_threads' = Append(m_threads, LoadThread(n))
    /\ UNCHANGED <<df1, df2, s_var, match_f1, match_f2, pull_vars,
                   prev_btn, merge_btn, m_queue>>
    /\ merge_call' = NoMergeCall
    /\ UNCHANGED <<procVars, cfgVars, uiVars>>

\* the worker of load_data reads the file and queues on_load_success, or
\* queues the "Load Error" box when read_csv raises
LoadWorker(k) ==
    /\ k \in 1..Len(m_threads)
    /\ m_threads[k].kind = "load"
    /\ \/ \E header \in MergerDisk :
             m_queue' = Append(m_queue,
                               Callback("on_load_success", m_threads[k].file_num,
                                        MergerTable(CleanColumns(header))))
       \/ m_queue' = Append(m_queue,
                            Callback("showerror", 0, NoneTable))
    /\ m_threads' = Without(m_threads, k)
    /\ UNCHANGED <<df1, df2, s_var, match_f1, match_f2, pull_vars,
                   prev_btn, merge_btn>>
    /\ merge_call' = NoMergeCall
    /\ UNCHANGED <<procVars, cfgVars, uiVars>>

\* the main loop runs on_load_success
OnLoadSuccess ==
    /\ m_queue # <<>>
    /\ Head(m_queue).cb = "on_load_success"
    /\ LET n == Head(m_queue).file_num
           t == Head(m_queue).df
           d1 == IF n = 1 THEN t ELSE df1
           d2 == IF n = 1 THEN df2 ELSE t
       IN /\ df1' = d1
          /\ df2' = d2
          /\ match_f1' = IF n = 1 THEN FilterKeyList(t.columns, s_var.f1)
                                  ELSE match_f1
          /\ match_f2' = IF n = 1 THEN match_f2
                                  ELSE FilterKeyList(t.columns, s_var.f2)
          /\ pull_vars' = IF n = 1 THEN pull_vars
                                   ELSE [c \in Range(t.columns) |-> FALSE]
          /\ prev_btn' = ButtonsAfterLoad(d1, d2, prev_btn)
          /\ merge_btn' = ButtonsAfterLoad(d1, d2, merge_btn)
    /\ m_queue' = Tail(m_queue)
    /\ UNCHANGED <<s_var, m_threads>>
    /\ merge_call' = NoMergeCall
    /\ UNCHANGED <<procVars, cfgVars, uiVars>>

\* the main loop shows the "Load Error" box of a failed load
LoadErrorShown ==
    /\ m_queue # <<>>
    /\ Head(m_queue).cb = "showerror"
    /\ m_queue' = Tail(m_queue)
    /\ UNCHANGED <<df1, df2, s_var, match_f1, match_f2, pull_vars,
                   prev_btn, merge_btn, m_threads>>
    /\ merge_call' = NoMergeCall
    /\ UNCHANGED <<procVars, cfgVars, uiVars>>

\* "Clear All", answered Yes
ClearAllKeepsButtons ==
    /\ df1' = NoneTable
    /\ df2' = NoneTable
    /\ pull_vars' = NoPullVars
    /\ match_f1' = [match_f1 EXCEPT !.value = ""]
    /\ match_f2' = [match_f2 EXCEPT !.value = ""]
    /\ UNCHANGED <<prev_btn, merge_btn, s_var, m_threads, m_queue>>
    /\ merge_call' = NoMergeCall
    /\ UNCHANGED <<procVars, cfgVars, uiVars>>

ClearAll ==
    /\ df1' = NoneTable
    /\ df2' = NoneTable
    /\ pull_vars' = NoPullVars
    /\ match_f1' = [match_f1 EXCEPT !.value = ""]
    /\ match_f2' = [match_f2 EXCEPT !.value = ""]
    /\ prev_btn' = "disabled"
    /\ merge_btn' = "disabled"
    /\ UNCHANGED <<s_var, m_threads, m_queue>>
    /\ merge_call' = NoMergeCall
    /\ UNCHANGED <<procVars, cfgVars, uiVars>>

\* "Clear All", answered No
ClearAllDeclined ==
    /\ UNCHANGED <<df1, df2, s_var, match_f1, match_f2, pull_vars,
                   prev_btn, merge_btn, m_threads, m_queue>>
    /\ merge_call' = NoMergeCall
    /\ UNCHANGED <<procVars, cfgVars, uiVars>>

\* the user types in a key search box: the trace of s1_var / s2_var calls
\* filter_key_list
KeySearch(n, term) ==
    /\ term # (IF n = 1 THEN s_var.f1 ELSE s_var.f2)
    /\ s_var' = IF n = 1 THEN [s_var EXCEPT !.f1 = term]
                         ELSE [s_var EXCEPT !.f2 = term]
    /\ match_f1' = IF n = 1 THEN FilterKeyList(df1.columns, term) ELSE match_f1
    /\ match_f2' = IF n = 1 THEN match_f2 ELSE FilterKeyList(df2.columns, term)
    /\ UNCHANGED <<df1, df2, pull_vars, prev_btn, merge_btn,
                   m_threads, m_queue>>
    /\ merge_call' = NoMergeCall
    /\ UNCHANGED <<procVars, cfgVars, uiVars>>

\* the user picks a key in a key box
SelectKey(n, c) ==
    /\ c \in Range(IF n = 1 THEN match_f1.values ELSE match_f2.values)
    /\ c # (IF n = 1 THEN match_f1.value ELSE match_f2.value)
    /\ match_f1' = IF n = 1 THEN [match_f1 EXCEPT !.value = c] ELSE match_f1
    /\ match_f2' = IF n = 1 THEN match_f2 ELSE [match_f2 EXCEPT !.value = c]
    /\ UNCHANGED <<df1, df2, s_var, pull_vars, prev_btn, merge_btn,
                   m_threads, m_queue>>
    /\ merge_call' = NoMergeCall
    /\ UNCHANGED <<procVars, cfgVars, uiVars>>

\* the user ticks or unticks the checkbox of a column
ToggleColumn(c) ==
    /\ c \in DOMAIN pull_vars
    /\ pull_vars' = [pull_vars EXCEPT ![c] = ~pull_vars[c]]
    /\ UNCHANGED <<df1, df2, s_var, match_f1, match_f2, prev_btn, merge_btn,
                   m_threads, m_queue>>
    /\ merge_call' = NoMergeCall
    /\ UNCHANGED <<procVars, cfgVars, uiVars>>

SelectAll ==
    /\ pull_vars' = [c \in DOMAIN pull_vars |-> TRUE]
    /\ pull_vars' # pull_vars
    /\ UNCHANGED <<df1, df2, s_var, match_f1, match_f2, prev_btn, merge_btn,
                   m_threads, m_queue>>
    /\ merge_call' = NoMergeCall
    /\ UNCHANGED <<procVars, cfgVars, uiVars>>

DeselectAll ==
    /\ pull_vars' = [c \in DOMAIN pull_vars |-> FALSE]
    /\ pull_vars' # pull_vars
    /\ UNCHANGED <<df1, df2, s_var, match_f1, match_f2, prev_btn, merge_btn,
                   m_threads, m_queue>>
    /\ merge_call' = NoMergeCall
    /\ UNCHANGED <<procVars, cfgVars, uiVars>>

\* "Preview Merge": show_preview starts preview_worker
PreviewClicked ==
    /\ prev_btn = "normal"
    /\ Len(m_threads) + Len(m_queue) < MaxInFlight
    /\ m_threads' = Append(m_threads, MergeThread)
    /\ UNCHANGED <<df1, df2, s_var, match_f1, match_f2, pull_vars,
                   prev_btn, merge_btn, m_queue>>
    /\ merge_call' = NoMergeCall
    /\ UNCHANGED <<procVars, cfgVars, uiVars>>

\* "Merge & Save": process_merge starts save_worker
SaveClicked ==
    /\ merge_btn = "normal"
    /\ Len(m_threads) + Len(m_queue) < MaxInFlight
    /\ m_threads' = Append(m_threads, MergeThread)
    /\ UNCHANGED <<df1, df2, s_var, match_f1, match_f2, pull_vars,
                   prev_btn, merge_btn, m_queue>>
    /\ merge_call' = NoMergeCall
    /\ UNCHANGED <<procVars, cfgVars, uiVars>>

\* perform_merge reads the key boxes and the checkboxes, then tests them
PerformMergeRead(k) ==
    /\ k \in 1..Len(m_threads)
    /\ m_threads[k].kind = "merge"
    /\ m_threads[k].at = "read"
    /\ LET th == [m_threads[k] EXCEPT !.key1 = Strip(match_f1.value),
                                      !.key2 = Strip(match_f2.value),
                                      !.pull_cols = Checked(pull_vars)]
           c == ReadCheck(th)
       IN IF c = "ok"
          THEN /\ m_threads' = [m_threads EXCEPT ![k] = [th EXCEPT !.at = "loaded"]]
               /\ merge_call' = NoMergeCall
          ELSE /\ m_threads' = Without(m_threads, k)
               /\ merge_call' = MergeEnd(th, "None", c, FALSE)
    /\ UNCHANGED <<df1, df2, s_var, match_f1, match_f2, pull_vars,
                   prev_btn, merge_btn, m_queue>>
    /\ UNCHANGED <<procVars, cfgVars, uiVars>>

\* perform_merge tests that both tables are there
PerformMergeLoaded(k) ==
    /\ k \in 1..Len(m_threads)
    /\ m_threads[k].kind = "merge"
    /\ m_threads[k].at = "loaded"
    /\ LET c == LoadedCheck(df1, df2)
       IN IF c = "ok"
          THEN /\ m_threads' = [m_threads EXCEPT ![k].at = "keys"]
               /\ merge_call' = NoMergeCall
          ELSE /\ m_threads' = Without(m_threads, k)
               /\ merge_call' = MergeEnd(m_threads[k], "None", c, FALSE)
    /\ UNCHANGED <<df1, df2, s_var, match_f1, match_f2, pull_vars,
                   prev_btn, merge_btn, m_queue>>
    /\ UNCHANGED <<procVars, cfgVars, uiVars>>

\* perform_merge looks the keys up in the columns and, when both are
\* there, starts merge_worker and waits for it
PerformMergeKeys(k) ==
    /\ k \in 1..Len(m_threads)
    /\ m_threads[k].kind = "merge"
    /\ m_threads[k].at = "keys"
    /\ LET c == KeysCheck(m_threads[k], df1, df2)
       IN \/ /\ c = "AttributeError"
             /\ merge_call' = MergeEnd(m_threads[k], "AttributeError", "none", FALSE)
          \/ /\ c = "Key Error"
             /\ merge_call' = MergeEnd(m_threads[k], "None", c, FALSE)
          \/ /\ c = "ok"
             /\ \/ merge_call' = MergeEnd(m_threads[k], "table", "none", TRUE)
                \/ merge_call' = MergeEnd(m_threads[k], "None", "Merge Error", TRUE)
    /\ m_threads' = Without(m_threads, k)
    /\ UNCHANGED <<df1, df2, s_var, match_f1, match_f2, pull_vars,
                   prev_btn, merge_btn, m_queue>>
    /\ UNCHANGED <<procVars, cfgVars, uiVars>>

NextMerger ==
    \/ \E n \in 1..2 : Browse(n)
    \/ \E k \in 1..MaxInFlight : LoadWorker(k)
    \/ OnLoadSuccess
    \/ LoadErrorShown
    \/ ClearAll
    \/ ClearAllDeclined
    \/ \E n \in 1..2, term \in SearchTerms : KeySearch(n, term)
    \/ \E n \in 1..2, c \in {"ID", "NAME", "CODE"} : SelectKey(n, c)
    \/ \E c \in {"ID", "NAME", "CODE"} : ToggleColumn(c)
    \/ SelectAll
    \/ DeselectAll
    \/ PreviewClicked
    \/ SaveClicked
    \/ \E k \in 1..MaxInFlight : PerformMergeRead(k)
    \/ \E k \in 1..MaxInFlight : PerformMergeLoaded(k)
    \/ \E k \in 1..MaxInFlight : PerformMergeKeys(k)

SpecMerger == InitMerger /\ [][NextMerger]_vars

----------------------------------------------------------------------------
(* What the specification says Full Process produces.                      *)

\* the derived columns of the data model
RequiredColumns ==
    {"ALIGNED ACCT", "ALIGNED JONO", "ACCT+JONO", "JOCRYEAR", "JOTODAY",
     "SEGMENT", "PRODUCT", "AGEING", "AGEING (2)", "AREA", "MSP"}

\* the bucket labels, lowest first
AgeingLabels ==
    <<"0-1 D", "2-3 D", "3-5 D", "5-15 D", "15-30 D", "30-60 D", "> 60 D">>

Ageing2Labels == <<"0-5 D", "5-15 D", "15-30 D", "30-60 D", "> 60 D">>

IsLabel(c, labels) == c.t = "str" /\ \E k \in 1..Len(labels) : labels[k] = c.s

\* the rank of a bucket label; 0 for anything that is no label
Rank(c, labels) ==
    IF IsLabel(c, labels)
    THEN CHOOSE k \in 1..Len(labels) : labels[k] = c.s
    ELSE 0

HasDayCount(r) == GetCell(r, "JOTODAY").t = "int" /\ GetCell(r, "JOTODAY").n >= 0

\* the value of the named column in a row of the reference file
MapCell(t, m, name) == m[CHOOSE k \in 1..Len(t.columns) : t.columns[k] = name]

\* run_full_process has run on a loaded table and returned; obs.df_in is
\* the table it was started on
AfterFullProcess == last_op = "run_full_process_return"

\* load_map_silent read the file without error
MapReadOk == obs.log \cap {"map loaded", "map unexpected structure"} # {}

----------------------------------------------------------------------------
(* Claims                                                                  *)

\* C1 (as claimed): after Full Process on a table holding the row
\* {ACCTNO "123", JONO "45", DATEJOCREATED "2024-01-01", PACKAGENAME
\* "SKY FIBER", PROVINCENAME "METRO MANILA"}, run on 2024-02-01, that row has
\* ALIGNED ACCT "0000000000123", ALIGNED JONO "00000045", JOTODAY 31,
\* AGEING "30-60 D", SEGMENT "SKYNCR" and PRODUCT "SKY".
C1_ScenarioEnriched ==
    AfterFullProcess =>
        \A i \in 1..Len(obs.df_in.rows) :
            obs.df_in.rows[i] = ScenarioRow =>
                /\ i <= Len(df.rows)
                /\ GetCell(df.rows[i], "ALIGNED ACCT") = Str("0000000000123")
                /\ GetCell(df.rows[i], "ALIGNED JONO") = Str("00000045")
                /\ GetCell(df.rows[i], "JOTODAY") = Int_(31)
                /\ GetCell(df.rows[i], "AGEING") = Str("30-60 D")
                /\ GetCell(df.rows[i], "SEGMENT") = Str("SKYNCR")
                /\ GetCell(df.rows[i], "PRODUCT") = Str("SKY")

\* C2 (as claimed): after Full Process every row with a non-null JOTODAY >= 0
\* has exactly one bucket label in AGEING and one in AGEING (2), and a row
\* with a larger JOTODAY never has a lower-ranked bucket than a row with a
\* smaller JOTODAY.
C2_BucketsTotalMonotonic ==
    AfterFullProcess =>
        /\ \A i \in 1..Len(df.rows) :
              HasDayCount(df.rows[i]) =>
                  /\ IsLabel(GetCell(df.rows[i], "AGEING"), AgeingLabels)
                  /\ IsLabel(GetCell(df.rows[i], "AGEING (2)"), Ageing2Labels)
        /\ \A i, j \in 1..Len(df.rows) :
              /\ HasDayCount(df.rows[i])
              /\ HasDayCount(df.rows[j])
              /\ df.rows[i]["JOTODAY"].n <= df.rows[j]["JOTODAY"].n
              => /\ Rank(GetCell(df.rows[i], "AGEING"), AgeingLabels)
                      <= Rank(GetCell(df.rows[j], "AGEING"), AgeingLabels)
                 /\ Rank(GetCell(df.rows[i], "AGEING (2)"), Ageing2Labels)
                      <= Rank(GetCell(df.rows[j], "AGEING (2)"), Ageing2Labels)

\* C3 (as claimed): after Full Process with a reference table whose
\* municipality tier and province tier give different MSP values for a
\* province, a row whose province and municipality match a reference row has
\* the municipality tier's MSP.
C3_MunicipalityTierWins ==
    (AfterFullProcess /\ map_full_df.some /\ Width(map_full_df) >= 9) =>
        \A i \in 1..Len(df.rows), k \in 1..Len(map_full_df.rows) :
            LET r == df.rows[i]
                m == map_full_df.rows[k]
            IN /\ GetCell(r, "PROVINCENAME") = Str(MapCell(map_full_df, m, "PROVINCE"))
               /\ GetCell(r, "MUNICIPALITYNAME") = Str(MapCell(map_full_df, m, "MUNICIPALITY"))
               /\ MapCell(map_full_df, m, "MUNI_MSP") # MapCell(map_full_df, m, "PROV_MSP")
               => GetCell(r, "MSP") = Str(MapCell(map_full_df, m, "MUNI_MSP"))

\* C4 (as claimed): Full Process keeps a row whose creation date is null (the
\* row count is unchanged) and leaves its JOCRYEAR, JOTODAY, AGEING and
\* AGEING (2) null.
C4_NullDateRowKept ==
    AfterFullProcess =>
        /\ Len(df.rows) = Len(obs.df_in.rows)
        /\ \A i \in 1..Len(obs.df_in.rows) :
              GetCell(obs.df_in.rows[i], "DATEJOCREATED") = Null =>
                  /\ i <= Len(df.rows)
                  /\ \A c \in {"JOCRYEAR", "JOTODAY", "AGEING", "AGEING (2)"} :
                        GetCell(df.rows[i], c).t \in {"null", "absent"}

\* C5 (as claimed): after Full Process every row has every required column,
\* and a second Full Process leaves columns and values as they are.
C5_SchemaNormalized ==
    AfterFullProcess =>
        /\ RequiredColumns \subseteq df.columns
        /\ \A i \in 1..Len(df.rows) : RequiredColumns \subseteq DOMAIN df.rows[i]
        /\ FullProcessTable(df, map_full_df, map_df) = df

C7_ReloadReplacesWhole ==
    (last_op = "load_map_silent" /\ MapReadOk) =>
        (map_df.some =>
            /\ Width(map_full_df) >= 3
            /\ map_df = RegionMap(map_full_df))

\* C8 (as claimed): when load_map_silent finds no file at the configured
\* path, no exception is raised and afterwards map_df is None.
C8_MissingMapDisables ==
    (last_op \in {"init", "load_map_silent"} /\ "map not found" \in obs.log) =>
        /\ ~obs.raised
        /\ ~map_df.some

\* C9: map_full_df and map_df change only in load_map_silent; load_file,
\* remove_bsg, filter_act (with their save_df calls), run_full_process and
\* every other step leave both as they are.
C9_ReferenceReadOnly ==
    [][last_op' # "load_map_silent" =>
          (map_full_df' = map_full_df /\ map_df' = map_df)]_vars

C9_FilteredWithMapLoaded ==
    /\ map_full_df.some
    /\ map_df.some
    /\ last_op = "filter_act"
    /\ save_call.called
    /\ df # obs.df_in

\* C10: when the write of the output file fails in save_df, the error is
\* logged for the user, save_df returns None and raises nothing, self.df and
\* self.file_path are as they were when save_df was called, and save_df can
\* be called again on them.
C10_SaveFailureKeepsTable ==
    (/\ save_call.called
     /\ CanSave(save_call.df_in, save_call.fp_in)
     /\ save_call.mk = "ok"
     /\ save_call.wr = "fail") =>
        /\ save_call.log = "save error"
        /\ "save error" \in obs.log
        /\ save_call.ret = NonePath
        /\ ~save_call.raised
        /\ ~obs.raised
        /\ df = save_call.df_in
        /\ file_path = save_call.fp_in
        /\ CanSave(df, file_path)

C10_WriteFailed ==
    /\ last_op = "remove_bsg"
    /\ save_call.called
    /\ CanSave(save_call.df_in, save_call.fp_in)
    /\ save_call.mk = "ok"
    /\ save_call.wr = "fail"
    /\ df # obs.df_in

\* the format family of a serialization
Family(fmt) == IF fmt \in {"json array", "json lines"} THEN "json" ELSE fmt

\* load_file picked a file and its last read failed
LoadFailed ==
    /\ last_op = "load_file"
    /\ obs.picked # NonePath
    /\ ~obs.reads[Len(obs.reads)].ok

\* the last handler called save_df and the file was written
Saved == save_call.called /\ save_call.log = "saved"

\* C11: when the read of the selected file fails in load_file, the error is
\* shown in a dialog and logged, nothing is raised, and self.df and
\* self.file_path are what they were before the call.
C11_LoadFailureKeepsTable ==
    LoadFailed =>
        /\ obs.dialog = "error"
        /\ "load error" \in obs.log
        /\ ~obs.raised
        /\ df = obs.df_in
        /\ file_path = obs.fp_in

C11_FailedWithTableLoaded ==
    /\ LoadFailed
    /\ obs.df_in.some
    /\ obs.picked # obs.fp_in

\* C12 (as claimed): save_df(suffix) writes to
\* <output_folder>/<base>_<suffix><ext> with base and ext as they are in the
\* name of the loaded file.
C12_OutputPathKeepsExtension ==
    Saved =>
        /\ save_call.ret.dir = config.output_folder
        /\ \E suffix \in {"removedbsg", "actfiltered"} :
              save_call.ret.base = save_call.fp_in.base \o "_" \o suffix
        /\ save_call.ret.ext = save_call.fp_in.ext

\* C12 (amended): save_df(suffix) writes to <output_folder>/<base>_<suffix><ext>,
\* base taken from the name of the loaded file, ext its extension in lower
\* case and output_folder from the settings; os.makedirs has made the
\* folder; the serialization written is of the format family of the input
\* extension.
C12_OutputPath ==
    Saved =>
        LET suffix == IF last_op = "remove_bsg" THEN "removedbsg"
                      ELSE "actfiltered"
        IN /\ save_call.ret =
                  Path(config.output_folder,
                       save_call.fp_in.base \o "_" \o suffix,
                       Lower(save_call.fp_in.ext))
           /\ save_call.ret \in out_files
           /\ save_call.folder = config.output_folder
           /\ Family(save_call.written.fmt) =
                  Family(ReadFormat(Lower(save_call.fp_in.ext)))

C12_SavedUpperCaseExtension ==
    /\ Saved
    /\ save_call.fp_in = ExportPath
    /\ last_op = "filter_act"
    /\ save_call.ret.ext # save_call.fp_in.ext

\* C13 (as claimed): for .csv, .xlsx, .json and .jsonl, the file save_df
\* writes is in the serialization load_file reads for that extension, and
\* loading it with load_file gives the table that was saved.
C13_SavedFileLoadsBack ==
    (Saved /\ save_call.ret.ext \in {".csv", ".xlsx", ".json", ".jsonl"}) =>
        /\ save_call.written.fmt = ReadFormat(save_call.ret.ext)
        /\ LoadFileResult(NoneDf, NonePath, save_call.ret, save_call.written,
                          TRUE, TRUE).df = save_call.df_in

\* C14: load_file reads a .csv first with the configured encoding; only if
\* that read fails it reads again with latin1; it reports a load error
\* exactly when the latin1 read fails too, and otherwise loads the table.
C14_CsvFallback ==
    (last_op = "load_file" /\ Lower(obs.picked.ext) = ".csv") =>
        /\ obs.reads[1].how = "csv configured encoding"
        /\ IF obs.reads[1].ok
           THEN /\ Len(obs.reads) = 1
                /\ obs.dialog = "none"
                /\ "load error" \notin obs.log
                /\ df = FileTable(obs.picked)
           ELSE /\ Len(obs.reads) = 2
                /\ obs.reads[2].how = "csv latin1"
                /\ (obs.dialog = "error") <=> ~obs.reads[2].ok
                /\ ("load error" \in obs.log) <=> ~obs.reads[2].ok
                /\ obs.reads[2].ok =>
                      (df = FileTable(obs.picked) /\ file_path = obs.picked)

C14_LoadedByFallback ==
    /\ last_op = "load_file"
    /\ Len(obs.reads) = 2
    /\ obs.reads[2].ok
    /\ df = ScenarioTable

\* C15: remove_bsg without a table or without DIVISIONCODE, and filter_act
\* without a table or without SUBSCRIBERSTATUSCODE, warn and do nothing
\* else: nothing is raised, the table and its path are unchanged, save_df is
\* not called and no file is written.
C15_MissingColumnSkipped ==
    [][(\/ /\ last_op' = "remove_bsg"
           /\ ~(df.some /\ "DIVISIONCODE" \in df.columns)
        \/ /\ last_op' = "filter_act"
           /\ ~(df.some /\ "SUBSCRIBERSTATUSCODE" \in df.columns))
       => /\ obs'.dialog = "warning"
          /\ ~obs'.raised
          /\ df' = df
          /\ file_path' = file_path
          /\ out_files' = out_files
          /\ ~save_call'.called]_vars

C15_WarnedWithTableLoaded ==
    /\ last_op = "filter_act"
    /\ obs.dialog = "warning"
    /\ df.some
    /\ "SUBSCRIBERSTATUSCODE" \notin df.columns

\* the region map holds, for every province of the file, one row: the
\* province with the region of its first row in the file
RegionMapOfFile(full, m) ==
    /\ m.some
    /\ m.columns = <<"PROVINCENAME", "REGION">>
    /\ \A i \in 1..Len(full.rows) :
          Cardinality({j \in 1..Len(m.rows) : m.rows[j][1] = full.rows[i][1]}) = 1
    /\ \A j \in 1..Len(m.rows) :
          \E i \in 1..Len(full.rows) :
              /\ full.rows[i][1] = m.rows[j][1]
              /\ full.rows[i][3] = m.rows[j][2]
              /\ \A h \in 1..(i - 1) : full.rows[h][1] # m.rows[j][1]

\* C16: a file of at least 3 columns gives the region map PROVINCENAME (file
\* column 0) / REGION (file column 2), one row per province with the region
\* of its first occurrence; a file of fewer columns builds no region map:
\* map_df stays what it was (None at startup).
C16_RegionMapShape ==
    /\ [](MapReadOk /\ last_op \in {"init", "load_map_silent"} =>
             /\ ("map loaded" \in obs.log) <=> (Width(map_full_df) >= 3)
             /\ "map loaded" \in obs.log => RegionMapOfFile(map_full_df, map_df)
             /\ (last_op = "init" /\ "map loaded" \notin obs.log) => ~map_df.some)
    /\ [][(last_op' = "load_map_silent"
           /\ "map unexpected structure" \in obs'.log) => map_df' = map_df]_vars

C16_DuplicateProvinceDropped ==
    /\ last_op = "load_map_silent"
    /\ "map loaded" \in obs.log
    /\ Len(map_df.rows) < Len(map_full_df.rows)

\* the rows of before at the positions in kept, in their order, are the
\* rows of after
RowsKept(before, after, kept) ==
    /\ after.some
    /\ after.columns = before.columns
    /\ Len(after.rows) = Cardinality(kept)
    /\ \A i \in 1..Len(after.rows) :
          after.rows[i] =
              before.rows[CHOOSE j \in kept :
                              Cardinality({k \in kept : k <= j}) = i]

\* C22: remove_bsg on a table with a DIVISIONCODE column leaves no row
\* whose DIVISIONCODE is the configured bsg_code, keeps every other row as
\* it was and in its order, and run again leaves the table as it is.
C22_RemoveBsgFilters ==
    [][(last_op' = "remove_bsg" /\ df.some /\ "DIVISIONCODE" \in df.columns) =>
          /\ \A i \in 1..Len(df'.rows) :
                df'.rows[i]["DIVISIONCODE"] # Str(config.bsg_code)
          /\ RowsKept(df, df',
                      {j \in 1..Len(df.rows) :
                          df.rows[j]["DIVISIONCODE"] # Str(config.bsg_code)})
          /\ RemoveBsgResult(df', file_path', config', out_files', "ok", "ok").df
                = df']_vars

C22_RowRemovedOthersKept ==
    /\ last_op = "remove_bsg"
    /\ obs.df_in = ExportTable
    /\ df = Table(ExportTable.columns, <<ExportRow2, ExportRow3>>)

\* the text holds the characters of part, one after the other
HasText(text, part) ==
    \E i \in 0..(Len(text) - Len(part)) :
        SubSeq(text, i + 1, i + Len(part)) = part

\* C23 (as claimed): filter_act on a table with a SUBSCRIBERSTATUSCODE
\* column leaves exactly the rows whose status code, as the text astype(str)
\* gives, holds the configured act_code, in their order; the table does not
\* grow, and run again it stays as it is.
C23_FilterActKeepsMatches ==
    [][(last_op' = "filter_act" /\ df.some
        /\ "SUBSCRIBERSTATUSCODE" \in df.columns) =>
          /\ RowsKept(df, df',
                      {j \in 1..Len(df.rows) :
                          HasText(AsTypeStr(df.rows[j]["SUBSCRIBERSTATUSCODE"]),
                                  Chars(config.act_code))})
          /\ Len(df'.rows) <= Len(df.rows)
          /\ FilterActResult(df', file_path', config', out_files', "ok", "ok").df
                = df']_vars

----------------------------------------------------------------------------
(* Claims on the settings store.                                           *)

\* the value DEFAULT_CONFIG has in the source text at a key path
FactoryGet(keys, default) ==
    LET r == GetFrom(FactoryHeap, Ref("DEFAULT_CONFIG"), keys)
    IN IF r.found THEN r.value ELSE default

\* every proper prefix of keys is absent from self.config or a dict
PrefixesOk(h, keys) ==
    \A i \in 0..(Len(keys) - 1) :
        LET r == GetFrom(h, Ref("self.config"), SubSeq(keys, 1, i))
        IN ~r.found \/ IsDict(r.value)

\* some key of the path is missing where it is looked up, or what it is
\* looked up in is no dict
MissingOnPath(h, keys) ==
    \E i \in 1..Len(keys) :
        LET r == GetFrom(h, Ref("self.config"), SubSeq(keys, 1, i - 1))
        IN r.found /\ (~IsDict(r.value) \/ h[r.value.s][keys[i]] = Absent)

\* get hands back the default (None here, which no setting holds) exactly
\* on the paths with a missing key or a value on the way that is no dict
GetDefaultWhenMissing ==
    \A p \in KeyPaths : (Get(heap, p, Null) = Null) <=> MissingOnPath(heap, p)

\* C19 (as claimed): after reset_to_defaults every setting but last_updated
\* has its factory value, whatever was set before, and DEFAULT_CONFIG is
\* never changed by set.
C19_ResetRestoresFactory ==
    /\ cfg_op.op = "reset_to_defaults" =>
          \A p \in KeyPaths \ {<<"last_updated">>} :
              Get(heap, p, Null) = FactoryGet(p, Null)
    /\ \A id \in DOMAIN FactoryHeap :
          id \in DOMAIN heap /\ heap[id] = FactoryHeap[id]

\* C20 (as claimed): a set on a key path whose proper prefixes are absent or
\* dicts does not raise, and get of the path then returns the value set,
\* whether the file was written or not; get returns the default exactly
\* when a key is missing or a value on the way is no dict.
C20_GetAfterSet ==
    /\ [][(cfg_op'.op = "set" /\ PrefixesOk(heap, cfg_op'.keys)) =>
             /\ ~cfg_op'.raised
             /\ Get(heap', cfg_op'.keys, Null) = cfg_op'.value]_vars
    /\ []GetDefaultWhenMissing

\* C20 (amended): the same for every key path but ("last_updated",), which
\* save_config overwrites with the time of the save.
C20_GetAfterSetButStamp ==
    /\ [][(cfg_op'.op = "set" /\ PrefixesOk(heap, cfg_op'.keys)
           /\ cfg_op'.keys # <<"last_updated">>) =>
             /\ ~cfg_op'.raised
             /\ Get(heap', cfg_op'.keys, Null) = cfg_op'.value]_vars
    /\ []GetDefaultWhenMissing

C20_SetMadeDictSaveFailed ==
    /\ cfg_op.op = "set"
    /\ cfg_op.keys = <<"extra", "font_size">>
    /\ cfg_op.created = {"self.config.extra"}
    /\ ~cfg_op.save_ok
    /\ Get(heap, cfg_op.keys, Null) = cfg_op.value

\* the key paths of one or two keys
MergePaths ==
    {<<k>> : k \in ConfigKeys} \cup {<<j, k>> : j \in ConfigKeys, k \in ConfigKeys}

\* two lookups agree: both miss, both give a dict, or both give one value
SameSetting(a, b) ==
    /\ a.found = b.found
    /\ a.found => IF IsDict(a.value) \/ IsDict(b.value)
                  THEN IsDict(a.value) /\ IsDict(b.value)
                  ELSE a.value = b.value

\* what the file asks for at a key path: its own value where it has one, or
\* where it has replaced a value on the way that it could not merge with;
\* the default anywhere else
FileOverDefault(file, p) ==
    LET inFile(q) == GetFrom(file.objs, Ref("loaded"), q)
        inDefault(q) == GetFrom(FactoryHeap, Ref("DEFAULT_CONFIG"), q)
        replaced ==
            \E i \in 1..(Len(p) - 1) :
                LET q == SubSeq(p, 1, i)
                IN /\ inFile(q).found
                   /\ ~(IsDict(inFile(q).value) /\ inDefault(q).found
                        /\ IsDict(inDefault(q).value))
    IN IF inFile(p).found \/ replaced THEN inFile(p) ELSE inDefault(p)

\* C21: what load_config returns has, at every key path, the value of the
\* file where the file has one, sections of both merged key by key, and the
\* default where the file has none; without a file that exists and parses
\* it has the defaults; __init__ goes on without an exception.
C21_LoadConfigMerges ==
    cfg_op.op = "init" =>
        LET file == cfg_op.file
            loaded == LoadConfig(file)
        IN /\ ~cfg_op.raised
           /\ \A p \in MergePaths :
                 SameSetting(GetFrom(loaded, Ref("self.config"), p),
                             IF file.exists /\ file.parses
                             THEN FileOverDefault(file, p)
                             ELSE GetFrom(FactoryHeap, Ref("DEFAULT_CONFIG"), p))
           /\ \A p \in MergePaths \ {<<"last_updated">>} :
                 SameSetting(GetFrom(heap, Ref("self.config"), p),
                             GetFrom(loaded, Ref("self.config"), p))

C21_SectionMerged ==
    /\ cfg_op.op = "init"
    /\ cfg_op.file = FileUi
    /\ Get(heap, <<"ui", "font_size">>, Null) = Int_(12)
    /\ Get(heap, <<"ui", "font_family">>, Null) = Str("Segoe UI")
    /\ Get(heap, <<"theme">>, Null) = Str("light")

----------------------------------------------------------------------------
(* Claims on the converter and on the threads.                             *)

\* C17 (as claimed): a run of convert that ends without an error on a
\* workbook with a sheet that has rows has exported at least one file,
\* with the split checkbox checked or not.
C17_ExportsInEitherMode ==
    (/\ conv_run.done
     /\ ~conv_run.failed
     /\ \E j \in 1..Len(Sheets(conv_run.book)) : Sheets(conv_run.book)[j].rows)
        => Len(conv_run.exported) >= 1

\* C18 (as claimed): every widget access is made by the Tk main thread;
\* the workers reach the widgets only through queued callbacks.
C18_WidgetsOnMainThread == \A a \in touched : a.by = "main"

----------------------------------------------------------------------------
(* Claims on the CSV merger *)

BothLoaded == df1.some /\ df2.some

\* C24: whatever loads (ended well or not) and clear_all calls (answered Yes
\* or No) have happened, "Preview Merge" and "Merge & Save" are enabled
\* exactly when both self.df1 and self.df2 are loaded.
C24_ButtonsIffBothLoaded ==
    /\ prev_btn = "normal" <=> BothLoaded
    /\ merge_btn = "normal" <=> BothLoaded

\* C24, the case: both tables are loaded and the buttons enabled, and the
\* "Load Error" box of a load that failed since is waiting to be shown.
C24_EnabledAfterFailedLoad ==
    /\ BothLoaded
    /\ prev_btn = "normal"
    /\ merge_btn = "normal"
    /\ m_queue # <<>>
    /\ Head(m_queue).cb = "showerror"

\* the condition under which perform_merge is to give up: a blank key, no
\* column to pull, a table missing, or a key that is no column of its table
MustRefuse(call, d1, d2) ==
    \/ call.key1 = ""
    \/ call.key2 = ""
    \/ call.pull_cols = {}
    \/ ~d1.some
    \/ ~d2.some
    \/ call.key1 \notin Range(d1.columns)
    \/ call.key2 \notin Range(d2.columns)

\* C25: a call of perform_merge that ends while a key it read is blank, no
\* column it read is checked, a table is not loaded, or a key is not a
\* column of its table, returns None, has started no merge_worker and has
\* left self.df1 and self.df2 as they were.
C25_PerformMergeRefuses ==
    [][(merge_call'.ret # "pending" /\ MustRefuse(merge_call', df1, df2)) =>
          /\ merge_call'.ret = "None"
          /\ ~merge_call'.worker_started
          /\ df1' = df1
          /\ df2' = df2]_vars

====
